---------------------------- MODULE Spec2Model ----------------------------
(***************************************************************************)
(* Model of the bus manager of dbus-broker (src/broker/manager.c): the     *)
(* construction and teardown of the Manager, the signal callback, the      *)
(* hangup policy, one iteration of the dispatch loop (manager_dispatch)    *)
(* and the run loop (manager_run).                                         *)
(*                                                                         *)
(* The dispatch context, the dispatch files and the connection object are  *)
(* other compilation units (util/dispatch.c, connection.c, c-list.h); the  *)
(* model gives them the behaviour the specification describes at the       *)
(* boundary.  Besides the two files the manager owns (the signal file and  *)
(* the controller's file) the model has one further connection, "peer",    *)
(* owned by code outside the manager, whose dispatch callback may do what  *)
(* the comment in manager_dispatch allows a dispatcher to do: put itself   *)
(* or other entries on the ready list and on the hangup list, and return   *)
(* any code.                                                               *)
(***************************************************************************)
EXTENDS Integers, Sequences, FiniteSets, TLC

\* How often the caller may call manager_run on one manager.
MaxRuns == 2

(***************************************************************************)
(* Names.                                                                  *)
(***************************************************************************)
\* The dispatch files: manager->signals_file, the file of
\* manager->controller, and the file of the external connection.
Files == {"sig", "ctl", "peer"}

\* The connections that can be on the hangup list.
Conns == {"ctl", "peer"}

\* The two termination signals of the signalfd mask.
TermSignals == {"SIGINT", "SIGTERM"}

\* The signal masks the caller of manager_run may have: nothing blocked, or
\* one of the two signals and an unrelated one.
CallerMasks == {{}, {"SIGINT", "SIGUSR1"}}

\* Control codes of main.h and dispatch.h, and two error values.  All codes
\* are symbolic values; SUCCESS is the code 0.
SUCCESS == "0"

MAIN_EXIT == "MAIN_EXIT"

MAIN_FAILED == "MAIN_FAILED"

DISPATCH_E_EXIT == "DISPATCH_E_EXIT"

DISPATCH_E_FAILURE == "DISPATCH_E_FAILURE"

\* -errno of a failed read on the signalfd (no signal pending).
E_AGAIN == "-EAGAIN"

\* some error a callback or the poll reports
E_IO == "-EIO"

\* the errors of the steps of manager_new: -errno of getsockopt(), -ENOMEM,
\* what dispatch_context_init() returns, -errno of signalfd(), and what
\* dispatch_file_init(), user_registry_ref_entry() and
\* connection_init_server() return
E_PEERCRED == "-errno(getsockopt)"

E_NOMEM == "-ENOMEM"

E_CONTEXT == "dispatch_context_init"

E_SIGNALFD == "-errno(signalfd)"

E_FILE == "dispatch_file_init"

E_USER == "user_registry_ref_entry"

E_CONNECTION == "connection_init_server"

\* what a dispatch callback may return
CallbackCodes == {SUCCESS, DISPATCH_E_EXIT, DISPATCH_E_FAILURE, E_IO}

(***************************************************************************)
(* util/error.h: the three macros annotate an error with its origin and    *)
(* pass its value on.                                                      *)
(***************************************************************************)
error_origin(e) == e

error_fold(e) == e

error_trace(e) == e

(***************************************************************************)
(* c-list.h on sequences.                                                  *)
(***************************************************************************)
c_list_is_empty(list) == list = <<>>

\* NULL is modelled by the string "NULL"
c_list_first_entry(list) == IF list = <<>> THEN "NULL" ELSE Head(list)

c_list_link_tail(list, x) == Append(list, x)

c_list_unlink(list, x) == SelectSeq(list, LAMBDA y : y # x)

\* all of source, in order, leaves source and is appended to the end of
\* target, whose entries keep their places
c_list_splice(target, source) == target \o source

Members(list) == {list[i] : i \in 1..Len(list)}

NoDuplicates(list) == \A i, j \in 1..Len(list) : list[i] = list[j] => i = j

VARIABLES
    pc,               \* position of the program
    newret,           \* manager_new: the value it returns
    manager,          \* manager_new: the local variable manager ("NULL"/"m")
    managerp,         \* manager_new: *managerp ("NULL" while not stored)
    user,             \* manager_new: the local variable user (TRUE: non-NULL)
    allocated,        \* the Manager storage is allocated
    context,          \* manager->dispatcher is initialised
    signals_fd,       \* manager->signals_fd (-1 or SignalFd)
    openFds,          \* the descriptors of the process the manager opened
    registered,       \* the files registered with manager->dispatcher
    userRefs,         \* reference count of the controller peer's UserEntry
    dispatcher_list,  \* manager->dispatcher_list, the ready list
    dispatcher_hup,   \* manager->dispatcher_hup, the hangup list
    hup_linked,       \* per connection: c_list_is_linked(&connection->hup_link)
    processed,        \* manager_dispatch: the local list processed
    file,             \* manager_dispatch: the local variable file
    r,                \* manager_dispatch / manager_run: the local variable r
    timeout,          \* manager_dispatch: the timeout handed to the poll
    ret,              \* the value manager_run returned
    running,          \* connection_is_running(&manager->controller)
    sigmask,          \* the signal mask of the process
    sigold,           \* manager_run: the local variable sigold
    sigPending,       \* the blocked termination signals that are pending
    runs,             \* how often manager_run was called
    assertFailed,     \* an assert() of manager_free failed
    \* history variables, read by the properties only
    mask0,            \* the signal mask before manager_run
    cause,            \* what produced the non-zero r of this dispatch call
    ctlDeferred,      \* the controller was dequeued from hup while running
    sigBlocked,       \* a signal arrived while the poll was blocked
    wokenOnlySig,     \* ... and the wake-up made only the signal file ready
    fresh,            \* entries callbacks enqueued in this dispatch call
    freshHandled,     \* this dispatch call dequeued an entry of fresh
    hupDone,          \* the connections this dispatch call took off hup
    rerequest,        \* a hangup was requested for a queued connection
    leftover,         \* manager_free found entries on a list
    cbcode,           \* what the last callback returned, "none" once a
                      \* hangup decision has set r since
    kept,             \* the ready list when the last dispatch call spliced
    moved,            \* the processed list when it spliced
    seen              \* the files this dispatch call has dispatched

vars == << pc, newret, manager, managerp, user, allocated, context, signals_fd,
           openFds, registered, userRefs, dispatcher_list, dispatcher_hup,
           hup_linked, processed, file, r, timeout, ret, running, sigmask,
           sigold, sigPending, runs, assertFailed, mask0, cause, ctlDeferred,
           sigBlocked, wokenOnlySig, fresh, freshHandled, hupDone, rerequest,
           leftover, cbcode, kept, moved, seen >>

newVars == << newret, manager, managerp, user >>

resVars == << allocated, context, signals_fd, openFds, registered, userRefs >>

listVars == << dispatcher_list, dispatcher_hup, hup_linked, processed >>

loopVars == << file, r, timeout, ret >>

sigVars == << sigmask, sigold, sigPending, mask0 >>

histVars == << cause, ctlDeferred, sigBlocked, wokenOnlySig, fresh,
               freshHandled, hupDone, rerequest, leftover >>

hist2Vars == << cbcode, kept, moved, seen >>

\* the descriptor signalfd() returns
SignalFd == 3

Init ==
    /\ pc = "new"
    /\ newret = SUCCESS
    /\ manager = "NULL"
    /\ managerp = "NULL"
    /\ user = FALSE
    /\ allocated = FALSE
    /\ context = FALSE
    /\ signals_fd = -1
    /\ openFds = {}
    /\ registered = {}
    /\ userRefs = 0
    /\ dispatcher_list = <<>>
    /\ dispatcher_hup = <<>>
    /\ hup_linked = [c \in Conns |-> FALSE]
    /\ processed = <<>>
    /\ file = "NULL"
    /\ r = SUCCESS
    /\ timeout = 0
    /\ ret = SUCCESS
    /\ running = FALSE
    /\ sigmask \in CallerMasks
    /\ sigold = {}
    /\ sigPending = {}
    /\ runs = 0
    /\ assertFailed = FALSE
    /\ mask0 = sigmask
    /\ cause = "none"
    /\ ctlDeferred = FALSE
    /\ sigBlocked = FALSE
    /\ wokenOnlySig = FALSE
    /\ fresh = {}
    /\ freshHandled = FALSE
    /\ hupDone = {}
    /\ rerequest = FALSE
    /\ leftover = FALSE
    /\ cbcode = "none"
    /\ kept = <<>>
    /\ moved = <<>>
    /\ seen = {}


(***************************************************************************)
(* Boundary of connection.c and util/dispatch.c.                           *)
(***************************************************************************)
\* connection_deinit(): the connection leaves the hangup list, its file is
\* deinitialised, and the reference it holds on its user entry is released.
\* A connection that was never initialised (CONNECTION_NULL) holds nothing.
connection_deinit_hup(hup, c) == c_list_unlink(hup, c)

connection_deinit_refs(refs, files, c) == IF c \in files THEN refs - 1 ELSE refs

\* dispatch_file_deinit(): the file leaves the ready list and the context.
dispatch_file_deinit(list, f) == c_list_unlink(list, f)

\* dispatch_file_select(): a file is put on the ready list only when it has
\* events it selected; straight after its initialisation it has none.
dispatch_file_select(list, f, hasEvents) ==
    IF hasEvents /\ f \notin Members(list) THEN c_list_link_tail(list, f)
    ELSE list

(***************************************************************************)
(* manager_free(), as far as its effects on the resources and the lists    *)
(* go; next is where the caller continues.  The two assert()s abort the    *)
(* process, so nothing after them happens when one fails.                  *)
(***************************************************************************)
\* line 130, connection_deinit(&manager->controller), on the hangup list
free_hup == connection_deinit_hup(dispatcher_hup, "ctl")

\* lines 130-131, connection_deinit() and dispatch_file_deinit(), on the
\* ready list
free_list_SignalFileKept == dispatch_file_deinit(dispatcher_list, "ctl")

free_list ==
    dispatch_file_deinit(dispatch_file_deinit(dispatcher_list, "ctl"), "sig")

\* line 132, c_close(manager->signals_fd)
free_fds_NotClosed == openFds

free_fds == openFds \ {signals_fd}

\* refs is the reference count of the user entry when manager_free is entered
manager_free(next, refs) ==
    LET \* the two assert()s
        ok == c_list_is_empty(free_hup) /\ c_list_is_empty(free_list)
    IN  /\ leftover' = (dispatcher_hup # <<>> \/ dispatcher_list # <<>>)
        /\ dispatcher_hup' = free_hup
        /\ hup_linked' = [hup_linked EXCEPT !["ctl"] = FALSE]
        /\ dispatcher_list' = free_list
        /\ registered' = registered \ {"ctl", "sig"}
        /\ userRefs' = connection_deinit_refs(refs, registered, "ctl")
        \* the storage is released below; the field is kept at -1 from here on
        /\ openFds' = free_fds
        /\ signals_fd' = -1
        /\ assertFailed' = ~ok
        \* dispatch_context_deinit(), user_registry_deinit(), free()
        /\ context' = IF ok THEN FALSE ELSE context
        /\ allocated' = IF ok THEN FALSE ELSE allocated
        /\ pc' = IF ok THEN next ELSE "aborted"

(***************************************************************************)
(* manager_new(), one action per step that can fail.  A failing step       *)
(* returns its error; the two _c_cleanup_ variables are then released by   *)
(* manager_new_unwind.                                                     *)
(***************************************************************************)
\* getsockopt(SO_PEERCRED); z_ucred is passed uninitialised, so the call can
\* fail on a valid descriptor as well as on a closed one
manager_new_getsockopt ==
    /\ pc = "new"
    /\ \E ok \in BOOLEAN :
          IF ok THEN pc' = "new_calloc" /\ newret' = newret
          ELSE pc' = "new_unwind" /\ newret' = error_origin(E_PEERCRED)
    /\ UNCHANGED << manager, managerp, user, resVars, listVars, loopVars,
                    running, sigVars, runs, assertFailed, histVars >>
    /\ UNCHANGED hist2Vars

\* calloc() and the initialisers of lines 75-81
manager_new_calloc ==
    /\ pc = "new_calloc"
    /\ \E ok \in BOOLEAN :
          IF ok
          THEN /\ pc' = "new_context"
               /\ manager' = "m"
               /\ allocated' = TRUE
               /\ newret' = newret
          ELSE /\ pc' = "new_unwind"
               /\ newret' = error_origin(E_NOMEM)
               /\ UNCHANGED << manager, allocated >>
    /\ dispatcher_list' = <<>>
    /\ dispatcher_hup' = <<>>
    /\ signals_fd' = -1
    /\ UNCHANGED << managerp, user, context, openFds, registered, userRefs,
                    hup_linked, processed, loopVars, running, sigVars, runs,
                    assertFailed, histVars >>
    /\ UNCHANGED hist2Vars

manager_new_context_init ==
    /\ pc = "new_context"
    /\ \E ok \in BOOLEAN :
          IF ok THEN pc' = "new_signalfd" /\ context' = TRUE /\ newret' = newret
          ELSE pc' = "new_unwind" /\ newret' = error_fold(E_CONTEXT) /\ context' = context
    /\ UNCHANGED << manager, managerp, user, allocated, signals_fd, openFds,
                    registered, userRefs, listVars, loopVars, running, sigVars,
                    runs, assertFailed, histVars >>
    /\ UNCHANGED hist2Vars

manager_new_signalfd ==
    /\ pc = "new_signalfd"
    /\ \E ok \in BOOLEAN :
          IF ok
          THEN /\ pc' = "new_file_init"
               /\ signals_fd' = SignalFd
               /\ openFds' = openFds \cup {SignalFd}
               /\ newret' = newret
          ELSE /\ pc' = "new_unwind"
               /\ newret' = error_origin(E_SIGNALFD)
               /\ UNCHANGED << signals_fd, openFds >>
    /\ UNCHANGED << manager, managerp, user, allocated, context, registered,
                    userRefs, listVars, loopVars, running, sigVars, runs,
                    assertFailed, histVars >>
    /\ UNCHANGED hist2Vars

manager_new_file_init ==
    /\ pc = "new_file_init"
    /\ \E ok \in BOOLEAN :
          IF ok
          THEN /\ pc' = "new_ref_entry"
               /\ registered' = registered \cup {"sig"}
               /\ newret' = newret
          ELSE /\ pc' = "new_unwind"
               /\ newret' = error_fold(E_FILE)
               /\ registered' = registered
    /\ UNCHANGED << manager, managerp, user, allocated, context, signals_fd,
                    openFds, userRefs, listVars, loopVars, running, sigVars,
                    runs, assertFailed, histVars >>
    /\ UNCHANGED hist2Vars

manager_new_ref_entry ==
    /\ pc = "new_ref_entry"
    /\ \E ok \in BOOLEAN :
          IF ok
          THEN /\ pc' = "new_connection"
               /\ user' = TRUE
               /\ userRefs' = userRefs + 1
               /\ newret' = newret
          ELSE /\ pc' = "new_unwind"
               /\ newret' = error_fold(E_USER)
               /\ UNCHANGED << user, userRefs >>
    /\ UNCHANGED << manager, managerp, allocated, context, signals_fd, openFds,
                    registered, listVars, loopVars, running, sigVars, runs,
                    assertFailed, histVars >>
    /\ UNCHANGED hist2Vars

\* connection_init_server(): on success the connection is registered with
\* the context and owns the reference on the user entry that was handed to
\* it, so the count stays as it is; whether it has output queued is up to
\* the connection
manager_new_connection_init ==
    /\ pc = "new_connection"
    /\ \E ok \in BOOLEAN, run \in BOOLEAN :
          IF ok
          THEN /\ pc' = "new_finish"
               /\ registered' = registered \cup {"ctl"}
               /\ running' = run
               /\ newret' = newret
          ELSE /\ pc' = "new_unwind"
               /\ newret' = error_fold(E_CONNECTION)
               /\ UNCHANGED << registered, running >>
    /\ UNCHANGED << manager, managerp, user, allocated, context, signals_fd,
                    openFds, userRefs, listVars, loopVars, sigVars, runs,
                    assertFailed, histVars >>
    /\ UNCHANGED hist2Vars

\* lines 119-123 and the cleanup of the two locals on "return 0": manager is
\* NULL by then, user is not, so user_entry_unrefp releases a reference
manager_new_finish ==
    /\ pc = "new_finish"
    /\ dispatcher_list' = dispatch_file_select(dispatcher_list, "sig", FALSE)
    /\ managerp' = manager
    /\ manager' = "NULL"
    /\ newret' = SUCCESS
    /\ userRefs' = IF user THEN userRefs - 1 ELSE userRefs
    /\ user' = FALSE
    /\ pc' = "idle"
    /\ UNCHANGED << allocated, context, signals_fd, openFds, registered,
                    dispatcher_hup, hup_linked, processed, loopVars, running,
                    sigVars, runs, assertFailed, histVars >>
    /\ UNCHANGED hist2Vars

\* the cleanup of the two locals on an error return: user_entry_unrefp(&user),
\* then manager_freep(&manager)
manager_new_unwind ==
    /\ pc = "new_unwind"
    /\ user' = FALSE
    /\ manager' = "NULL"
    /\ IF manager # "NULL"
       THEN manager_free("new_failed", userRefs - (IF user THEN 1 ELSE 0))
       ELSE /\ pc' = "new_failed"
            /\ userRefs' = userRefs - (IF user THEN 1 ELSE 0)
            /\ UNCHANGED << allocated, context, signals_fd, openFds, registered,
                            dispatcher_list, dispatcher_hup, hup_linked,
                            assertFailed, leftover >>
    /\ UNCHANGED << newret, managerp, processed, loopVars, running, sigVars,
                    runs, cause, ctlDeferred, sigBlocked, wokenOnlySig, fresh,
                    freshHandled, hupDone, rerequest >>
    /\ UNCHANGED hist2Vars

(***************************************************************************)
(* The owner of the external connection, the caller of the manager and the *)
(* arrival of signals.                                                     *)
(***************************************************************************)
\* the owner of the external connection registers it with the manager's
\* context and lists
peer_attach ==
    /\ pc = "idle"
    /\ "peer" \notin registered
    /\ registered' = registered \cup {"peer"}
    /\ UNCHANGED << pc, newVars, allocated, context, signals_fd, openFds,
                    userRefs, listVars, loopVars, running, sigVars, runs,
                    assertFailed, histVars >>
    /\ UNCHANGED hist2Vars

\* ... and deinitialises it (connection_deinit) while the loop is not running
peer_detach ==
    /\ pc \in {"idle", "returned"}
    /\ "peer" \in registered
    /\ registered' = registered \ {"peer"}
    /\ dispatcher_hup' = connection_deinit_hup(dispatcher_hup, "peer")
    /\ hup_linked' = [hup_linked EXCEPT !["peer"] = FALSE]
    /\ dispatcher_list' = dispatch_file_deinit(dispatcher_list, "peer")
    /\ UNCHANGED << pc, newVars, allocated, context, signals_fd, openFds,
                    userRefs, processed, loopVars, running, sigVars, runs,
                    assertFailed, histVars >>
    /\ UNCHANGED hist2Vars

\* the caller frees the manager, after the owners of all other connections
\* have deinitialised theirs
manager_free_call ==
    /\ pc \in {"idle", "returned"}
    /\ "peer" \notin registered
    /\ manager_free("freed", userRefs)
    /\ UNCHANGED << newVars, processed, loopVars, running, sigVars, runs, cause,
                    ctlDeferred, sigBlocked, wokenOnlySig, fresh, freshHandled,
                    hupDone, rerequest >>
    /\ UNCHANGED hist2Vars

\* a termination signal is sent to the process while it is blocked: it
\* becomes pending and readable on the signalfd
signal_arrive ==
    /\ pc \notin {"new_failed", "freed", "aborted"}
    /\ \E s \in TermSignals :
          /\ s \in sigmask
          /\ s \notin sigPending
          /\ sigPending' = sigPending \cup {s}
    /\ sigBlocked' = (sigBlocked \/ (pc = "poll" /\ timeout = -1))
    /\ UNCHANGED << pc, newVars, resVars, listVars, loopVars, running, sigmask,
                    sigold, mask0, runs, assertFailed, cause, ctlDeferred,
                    wokenOnlySig, fresh, freshHandled, hupDone, rerequest,
                    leftover >>
    /\ UNCHANGED hist2Vars

(***************************************************************************)
(* manager_run()                                                           *)
(***************************************************************************)
\* lines 218-222: sigprocmask(SIG_BLOCK, &signew, &sigold)
manager_run_enter ==
    /\ pc \in {"idle", "returned"}
    /\ runs < MaxRuns
    /\ runs' = runs + 1
    /\ sigold' = sigmask
    /\ sigmask' = sigmask \cup TermSignals
    /\ mask0' = sigmask
    /\ pc' = "dispatch"
    /\ UNCHANGED << newVars, resVars, listVars, loopVars, running, sigPending,
                    assertFailed, histVars >>
    /\ UNCHANGED hist2Vars

\* line 228: what sigprocmask(SIG_SETMASK, &sigold, NULL) leaves blocked
restored_mask_Unchanged == sigmask

restored_mask == sigold

\* lines 226-230: the loop condition, and the way out.  Pending signals the
\* restored mask no longer blocks are delivered to the process.
manager_run_check ==
    /\ pc = "run_check"
    /\ IF r = SUCCESS
       THEN /\ pc' = "dispatch"
            /\ UNCHANGED << sigmask, sigPending, ret >>
       ELSE /\ pc' = "returned"
            /\ sigmask' = restored_mask
            /\ sigPending' = sigPending \cap restored_mask
            /\ ret' = error_trace(r)
    /\ UNCHANGED << newVars, resVars, listVars, file, r, timeout, running,
                    sigold, mask0, runs, assertFailed, histVars >>
    /\ UNCHANGED hist2Vars

(***************************************************************************)
(* dispatch_context_poll(): the files that have events are put on the      *)
(* tail of the ready list, in the order the kernel reports them, unless    *)
(* they are linked already.                                                *)
(***************************************************************************)
\* the orders in which a wake-up can report events of distinct files
EventBatches ==
    {ev \in UNION {[1..n -> Files] : n \in 0..Cardinality(Files)} :
        NoDuplicates(ev)}

RECURSIVE poll_link(_, _)
poll_link(list, evs) ==
    IF evs = <<>> THEN list
    ELSE poll_link(dispatch_file_select(list, Head(evs), TRUE), Tail(evs))

\* the signalfd is readable exactly while a signal of its mask is pending,
\* and the poll reports a readable signalfd unless its file is on the ready
\* list already; whether the sockets are readable is up to their peers
can_report(evs) ==
    /\ Members(evs) \subseteq registered
    /\ "sig" \in Members(evs) => sigPending # {}
    /\ (sigPending # {} /\ "sig" \notin Members(dispatcher_list))
          => "sig" \in Members(evs)

(***************************************************************************)
(* manager_dispatch()                                                      *)
(***************************************************************************)
\* line 160: the timeout of the poll
poll_timeout_Inverted == IF c_list_is_empty(dispatcher_list) THEN 0 ELSE -1

poll_timeout == IF c_list_is_empty(dispatcher_list) THEN -1 ELSE 0

manager_dispatch_enter ==
    /\ pc = "dispatch"
    /\ timeout' = poll_timeout
    /\ processed' = <<>>
    /\ file' = "NULL"
    /\ r' = SUCCESS
    /\ pc' = "poll"
    /\ cause' = "none"
    /\ sigBlocked' = FALSE
    /\ wokenOnlySig' = FALSE
    /\ fresh' = {}
    /\ freshHandled' = FALSE
    /\ hupDone' = {}
    /\ rerequest' = FALSE
    /\ cbcode' = "none"
    /\ kept' = <<>>
    /\ moved' = <<>>
    /\ seen' = {}
    /\ UNCHANGED << newVars, resVars, dispatcher_list, dispatcher_hup,
                    hup_linked, ret, running, sigVars, runs, assertFailed,
                    ctlDeferred, leftover >>

\* lines 160-162, the poll succeeds: with the timeout -1 it returns only
\* once a file has an event
manager_dispatch_poll ==
    /\ pc = "poll"
    /\ \E evs \in EventBatches :
          /\ can_report(evs)
          /\ timeout = -1 => evs # <<>>
          /\ dispatcher_list' = poll_link(dispatcher_list, evs)
          /\ wokenOnlySig' = (timeout = -1 /\ sigBlocked /\ evs = <<"sig">>)
    /\ r' = SUCCESS
    /\ pc' = "hup_loop"
    /\ UNCHANGED << newVars, resVars, dispatcher_hup, hup_linked, processed,
                    file, timeout, ret, running, sigVars, runs, assertFailed,
                    cause, ctlDeferred, sigBlocked, fresh, freshHandled,
                    hupDone, rerequest, leftover >>
    /\ UNCHANGED hist2Vars

\* lines 160-162, the poll fails: return error_fold(r)
manager_dispatch_poll_error ==
    /\ pc = "poll"
    /\ r' = error_fold(E_IO)
    /\ cause' = "poll"
    /\ pc' = "run_check"
    /\ UNCHANGED << newVars, resVars, listVars, file, timeout, ret, running,
                    sigVars, runs, assertFailed, ctlDeferred, sigBlocked,
                    wokenOnlySig, fresh, freshHandled, hupDone, rerequest,
                    leftover >>
    /\ UNCHANGED hist2Vars

\* manager_hangup(), lines 142-152
manager_hangup_NeverExits(connection) == SUCCESS

manager_hangup_AnyConnection(connection) ==
    IF running THEN SUCCESS ELSE MAIN_EXIT

manager_hangup(connection) ==
    IF connection = "ctl"
    THEN (IF running THEN SUCCESS ELSE MAIN_EXIT)
    ELSE SUCCESS

\* line 166: c_list_unlink_init() leaves the link initialised, that is, not
\* linked; c_list_unlink() would leave its stale pointers in it
hup_link_unlinked_Stale == TRUE

hup_link_unlinked == FALSE

\* lines 165-168, one turn of the first inner loop
manager_dispatch_hup ==
    /\ pc = "hup_loop"
    /\ IF r = SUCCESS /\ c_list_first_entry(dispatcher_hup) # "NULL"
       THEN LET connection == c_list_first_entry(dispatcher_hup)
                code == error_trace(manager_hangup(connection))
            IN  /\ dispatcher_hup' = c_list_unlink(dispatcher_hup, connection)
                /\ hup_linked' = [hup_linked EXCEPT ![connection] = hup_link_unlinked]
                /\ r' = code
                /\ pc' = "hup_loop"
                /\ cause' = IF code # SUCCESS THEN "hangup" ELSE cause
                /\ ctlDeferred' = IF connection = "ctl" THEN running ELSE ctlDeferred
                /\ freshHandled' = (freshHandled \/ <<"hup", connection>> \in fresh)
                /\ fresh' = fresh \ {<<"hup", connection>>}
                /\ hupDone' = hupDone \cup {connection}
                /\ cbcode' = "none"
       ELSE /\ pc' = "ready_loop"
            /\ UNCHANGED << dispatcher_hup, hup_linked, r, cause, ctlDeferred,
                            fresh, freshHandled, hupDone, cbcode >>
    /\ UNCHANGED << newVars, resVars, dispatcher_list, processed, file, timeout,
                    ret, running, sigVars, runs, assertFailed, sigBlocked,
                    wokenOnlySig, rerequest, leftover, kept, moved, seen >>

\* lines 170-172: the condition of the second inner loop
ready_condition_NoHupCheck ==
    /\ r = SUCCESS
    /\ c_list_first_entry(dispatcher_list) # "NULL"

ready_condition_IgnoresCode ==
    /\ c_list_is_empty(dispatcher_hup)
    /\ c_list_first_entry(dispatcher_list) # "NULL"

ready_condition ==
    /\ r = SUCCESS
    /\ c_list_is_empty(dispatcher_hup)
    /\ c_list_first_entry(dispatcher_list) # "NULL"

\* line 197: the ready list once the entry is unlinked from it
ready_unlinked_StillLinked(f) == dispatcher_list

ready_unlinked(f) == c_list_unlink(dispatcher_list, f)

\* line 198: the processed list once the entry is linked to it
ready_processed_NotMoved(f) == processed

ready_processed(f) == c_list_link_tail(processed, f)

\* lines 170-198, one turn of the second inner loop up to the call
manager_dispatch_ready ==
    /\ pc = "ready_loop"
    /\ IF ready_condition
       THEN LET f == c_list_first_entry(dispatcher_list)
            IN  /\ file' = f
                /\ dispatcher_list' = ready_unlinked(f)
                /\ processed' = ready_processed(f)
                /\ pc' = "call"
                /\ freshHandled' = (freshHandled \/ <<"ready", f>> \in fresh)
                /\ fresh' = fresh \ {<<"ready", f>>}
                /\ seen' = seen \cup {f}
       ELSE /\ pc' = "loop_cond"
            /\ UNCHANGED << file, dispatcher_list, processed, fresh,
                            freshHandled, seen >>
    /\ UNCHANGED << newVars, resVars, dispatcher_hup, hup_linked, r, timeout,
                    ret, running, sigVars, runs, assertFailed, cause,
                    ctlDeferred, sigBlocked, wokenOnlySig, hupDone, rerequest,
                    leftover, cbcode, kept, moved >>

\* lines 200-206: the callback's return value in the loop's vocabulary
control_code_Swapped(v) ==
    IF v = DISPATCH_E_EXIT THEN MAIN_FAILED
    ELSE IF v = DISPATCH_E_FAILURE THEN MAIN_EXIT
    ELSE error_fold(v)

control_code(v) ==
    IF v = DISPATCH_E_EXIT THEN MAIN_EXIT
    ELSE IF v = DISPATCH_E_FAILURE THEN MAIN_FAILED
    ELSE error_fold(v)

\* read() on the signalfd takes the pending signal with the lowest number
read_signal(pending) == IF "SIGINT" \in pending THEN "SIGINT" ELSE "SIGTERM"

\* manager_dispatch_signals(), lines 32-53, called on the signal file
manager_dispatch_signals ==
    /\ pc = "call"
    /\ file = "sig"
    /\ LET code == IF sigPending = {} THEN error_origin(E_AGAIN)
                   ELSE DISPATCH_E_EXIT
       IN  /\ r' = control_code(code)
           /\ cbcode' = code
           /\ cause' = "signal"
    /\ sigPending' = sigPending \ {read_signal(sigPending)}
    /\ pc' = "ready_loop"
    /\ UNCHANGED << newVars, resVars, listVars, file, timeout, ret, running,
                    sigmask, sigold, mask0, runs, assertFailed, ctlDeferred,
                    sigBlocked, wokenOnlySig, fresh, freshHandled, hupDone,
                    rerequest, leftover, kept, moved, seen >>

\* manager_dispatch_controller(), lines 55-57, called on the controller's file
manager_dispatch_controller ==
    /\ pc = "call"
    /\ file = "ctl"
    /\ r' = control_code(SUCCESS)
    /\ cbcode' = SUCCESS
    /\ pc' = "ready_loop"
    /\ UNCHANGED << newVars, resVars, listVars, file, timeout, ret, running,
                    sigVars, runs, assertFailed, histVars, kept, moved, seen >>

\* what the callback of the external connection may do during one call:
\* nothing; clear its events, which takes its file off the list it is on;
\* put its file back on the ready list; make the controller's file ready;
\* request the hangup of connections; let the controller flush or queue
\* output
PeerEffects ==
    {"none", "clear", "requeue", "select_ctl", "hangup_ctl", "hangup_peer",
     "hangup_peer_twice", "flush", "queue"}

\* the connections an effect requests the hangup of, in order
hangup_requests(e) ==
    CASE e = "hangup_ctl" -> <<"ctl">>
      [] e = "hangup_peer" -> <<"peer">>
      [] e = "hangup_peer_twice" -> <<"peer", "peer">>
      [] OTHER -> <<>>

\* the hangup request of connection.c on h = [list, linked]: a connection
\* whose hup_link is linked already is left where it is
hangup_request(h, c) ==
    IF h.linked[c] THEN h
    ELSE [list |-> c_list_link_tail(h.list, c),
          linked |-> [h.linked EXCEPT ![c] = TRUE]]

RECURSIVE hangup_all(_, _)
hangup_all(h, cs) ==
    IF cs = <<>> THEN h
    ELSE hangup_all(hangup_request(h, Head(cs)), Tail(cs))

\* the callback of the external connection, called on its file
peer_dispatch ==
    /\ pc = "call"
    /\ file = "peer"
    /\ \E e \in PeerEffects, code \in CallbackCodes :
          LET h == hangup_all([list |-> dispatcher_hup, linked |-> hup_linked],
                              hangup_requests(e))
          IN  /\ r' = control_code(code)
              /\ cbcode' = code
              /\ cause' = IF code # SUCCESS THEN "callback" ELSE cause
              /\ processed' =
                    IF e \in {"clear", "requeue"}
                    THEN c_list_unlink(processed, "peer")
                    ELSE processed
              /\ dispatcher_list' =
                    CASE e = "requeue" -> c_list_link_tail(dispatcher_list, "peer")
                      [] e = "select_ctl" ->
                            IF "ctl" \in Members(processed)
                            THEN dispatcher_list
                            ELSE dispatch_file_select(dispatcher_list, "ctl", TRUE)
                      [] OTHER -> dispatcher_list
              /\ dispatcher_hup' = h.list
              /\ hup_linked' = h.linked
              /\ running' =
                    CASE e = "flush" -> FALSE
                      [] e = "queue" -> TRUE
                      [] OTHER -> running
              /\ fresh' = fresh
                    \cup {<<"ready", x>> : x \in Members(dispatcher_list')
                                                  \ Members(dispatcher_list)}
                    \cup {<<"hup", x>> : x \in Members(dispatcher_hup')
                                                \ Members(dispatcher_hup)}
              /\ rerequest' = (rerequest
                                 \/ Len(h.list) - Len(dispatcher_hup)
                                       < Len(hangup_requests(e)))
    /\ pc' = "ready_loop"
    /\ UNCHANGED << newVars, resVars, file, timeout, ret, sigVars, runs,
                    assertFailed, ctlDeferred, sigBlocked, wokenOnlySig,
                    freshHandled, hupDone, leftover, kept, moved, seen >>

\* line 208: while (!r)
manager_dispatch_loop ==
    /\ pc = "loop_cond"
    /\ pc' = IF r = SUCCESS THEN "hup_loop" ELSE "splice"
    /\ UNCHANGED << newVars, resVars, listVars, loopVars, running, sigVars,
                    runs, assertFailed, histVars >>
    /\ UNCHANGED hist2Vars

\* line 210: the ready list once the processed list is spliced into it
spliced_list_Swapped == c_list_splice(processed, dispatcher_list)

spliced_list == c_list_splice(dispatcher_list, processed)

\* lines 210-211: the processed entries go back to the ready list
manager_dispatch_return ==
    /\ pc = "splice"
    /\ dispatcher_list' = spliced_list
    /\ processed' = <<>>
    /\ pc' = "run_check"
    /\ kept' = dispatcher_list
    /\ moved' = processed
    /\ UNCHANGED << newVars, resVars, dispatcher_hup, hup_linked, loopVars,
                    running, sigVars, runs, assertFailed, histVars, cbcode,
                    seen >>

Next ==
    \/ manager_new_getsockopt
    \/ manager_new_calloc
    \/ manager_new_context_init
    \/ manager_new_signalfd
    \/ manager_new_file_init
    \/ manager_new_ref_entry
    \/ manager_new_connection_init
    \/ manager_new_finish
    \/ manager_new_unwind
    \/ peer_attach
    \/ peer_detach
    \/ manager_free_call
    \/ signal_arrive
    \/ manager_run_enter
    \/ manager_run_check
    \/ manager_dispatch_enter
    \/ manager_dispatch_poll
    \/ manager_dispatch_poll_error
    \/ manager_dispatch_hup
    \/ manager_dispatch_ready
    \/ manager_dispatch_signals
    \/ manager_dispatch_controller
    \/ peer_dispatch
    \/ manager_dispatch_loop
    \/ manager_dispatch_return

Spec == Init /\ [][Next]_vars

(***************************************************************************)
(* The program runs whenever it can: it is one thread, and the only place  *)
(* where it waits is the poll.                                             *)
(***************************************************************************)
ProgramStep ==
    \/ manager_run_check
    \/ manager_dispatch_enter
    \/ manager_dispatch_poll
    \/ manager_dispatch_hup
    \/ manager_dispatch_ready
    \/ manager_dispatch_signals
    \/ manager_dispatch_controller
    \/ peer_dispatch
    \/ manager_dispatch_loop
    \/ manager_dispatch_return

FairSpec == Spec /\ WF_vars(ProgramStep)

\* the positions inside manager_dispatch, and inside manager_run
DispatchPcs ==
    {"dispatch", "poll", "hup_loop", "ready_loop", "call", "loop_cond", "splice"}

RunPcs == DispatchPcs \cup {"run_check"}

(***************************************************************************)
(* Properties.                                                             *)
(***************************************************************************)

\* C1 (P1, priority ordering): a callback of a ready-list entry is only
\* ever invoked in a state where the hangup list is empty, so every hangup
\* entry queued before it has been handed to manager_hangup first.
C1_PriorityOrdering == pc = "call" => c_list_is_empty(dispatcher_hup)

\* a ready-list callback is about to run in a dispatch call that took
\* entries off the hangup list before
C1_Witness == pc = "call" /\ hupDone # {} /\ dispatcher_list # <<>>

\* C2 (P3, drain-before-exit): after the controller was taken off the hangup
\* list while running, no path produces MAIN_EXIT until a later hangup check
\* of the controller finds it no longer running.
C2_DrainBeforeExit == ctlDeferred => r # MAIN_EXIT

\* C3 (lossless shutdown on signal): when the signal callback ends the loop,
\* manager_run does not return MAIN_EXIT while the controller is still
\* running.
C3_LosslessSignalShutdown ==
    (pc = "returned" /\ cause = "signal" /\ ret = MAIN_EXIT) => ~running

\* C4 (P5, signal correctness), as the claim states it: when a termination
\* signal arrived while the poll was blocked and the poll did not fail, the
\* dispatch call returns MAIN_EXIT.
C4_SignalWhileBlocked ==
    (pc = "run_check" /\ sigBlocked /\ cause # "poll") => r = MAIN_EXIT

\* C4, amended: when the signal arrived while the poll was blocked and the
\* wake-up reports the signal file alone, the dispatch call returns
\* MAIN_EXIT, the signal file is the only entry of the ready list, and no
\* entry was queued on either list during the call.
C4_SignalOnlyWakeup ==
    (pc = "run_check" /\ wokenOnlySig) =>
        /\ r = MAIN_EXIT
        /\ dispatcher_list = <<"sig">>
        /\ fresh = {}
        /\ ~freshHandled

\* the signal callback has ended such a dispatch call
C4_Witness ==
    pc = "run_check" /\ wokenOnlySig /\ cause = "signal" /\ "peer" \in registered

\* C5 (termination signals are never ignored): a signal that is pending
\* while manager_run executes leads to manager_run returning.
C5_SignalLeadsToReturn ==
    (pc \in RunPcs /\ sigPending # {}) ~> (pc \notin RunPcs)

C7_TeardownInvariant == ~assertFailed

\* manager_free ran after manager_run returned with entries left on a list
C7_Witness == pc = "freed" /\ leftover /\ ret # SUCCESS

\* C8 (P2, no double hangup): a connection is on the hangup list at most
\* once, and its hup_link says it is linked exactly while it is on the list,
\* so that a connection the dispatch loop took off can be queued again.
C8_NoDoubleHangup ==
    /\ NoDuplicates(dispatcher_hup)
    /\ \A c \in Conns : hup_linked[c] <=> c \in Members(dispatcher_hup)

\* a hangup was requested for a queued connection, and a connection the
\* dispatch call took off the list is on it again
C8_Witness ==
    /\ rerequest
    /\ \E c \in hupDone : c \in Members(dispatcher_hup)

\* C9 (construction is all-or-nothing): after a failed manager_new the
\* error is returned, no manager is stored, and nothing is left acquired.
C9_AllOrNothing ==
    pc = "new_failed" =>
        /\ newret # SUCCESS
        /\ managerp = "NULL"
        /\ ~allocated
        /\ ~context
        /\ openFds = {}
        /\ registered = {}
        /\ dispatcher_list = <<>>
        /\ dispatcher_hup = <<>>
        /\ userRefs = 0

\* the last step, the initialisation of the controller connection, failed
C9_Witness == pc = "new_failed" /\ newret = E_CONNECTION

\* C10 (signal mask of manager_run): the two termination signals are blocked
\* during manager_dispatch, manager_run returns the non-zero code that ended
\* the loop, and the mask is then the one from before the call.
C10_SignalMaskScope ==
    /\ pc \in RunPcs => TermSignals \subseteq sigmask
    /\ pc = "returned" => (ret # SUCCESS /\ ret = r /\ sigmask = mask0)
    /\ pc \notin RunPcs => sigmask = mask0

\* manager_run returned a failure code to a caller that had SIGINT blocked
C10_Witness ==
    pc = "returned" /\ ret = MAIN_FAILED /\ mask0 = {"SIGINT", "SIGUSR1"}

\* C11 (controller hangup with no pending output): once a dispatch call has
\* taken the controller off the hangup list while it was not running, the
\* control code is MAIN_EXIT, no ready-list callback is invoked in the rest
\* of the call, and manager_run returns MAIN_EXIT.
C11_QuietHangupExits ==
    ("ctl" \in hupDone /\ ~ctlDeferred) =>
        /\ r = MAIN_EXIT
        /\ pc # "call"
        /\ pc = "returned" => ret = MAIN_EXIT

\* manager_run returned after such a hangup, with entries that were never
\* dispatched left on the ready list
C11_Witness ==
    /\ pc = "returned"
    /\ "ctl" \in hupDone
    /\ ~ctlDeferred
    /\ ret = MAIN_EXIT
    /\ kept # <<>>

\* C12 (one dispatch iteration terminates): after a successful poll,
\* manager_dispatch returns to manager_run; in particular it returns 0 when
\* both lists are drained and no code was produced.
C12_DispatchReturns == (pc = "hup_loop") ~> (pc = "run_check")

C14_NoContinuation ==
    [][ /\ (pc = "poll" /\ r' # SUCCESS) =>
             /\ pc' = "run_check"
             /\ << dispatcher_list, dispatcher_hup, hup_linked, processed >>' =
                   << dispatcher_list, dispatcher_hup, hup_linked, processed >>
        /\ (pc \in RunPcs \ {"dispatch", "poll"} /\ r # SUCCESS) =>
             /\ pc' \in {"hup_loop", "ready_loop", "loop_cond", "splice",
                         "run_check", "returned"}
             /\ r' = r
             /\ dispatcher_hup' = dispatcher_hup
             /\ hup_linked' = hup_linked
             /\ seen' = seen
             /\ hupDone' = hupDone
             /\ SubSeq(dispatcher_list', 1, Len(dispatcher_list)) = dispatcher_list
             /\ Members(dispatcher_list') \subseteq
                   Members(dispatcher_list) \cup Members(processed)
             /\ pc' = "returned" => ret' = r
      ]_vars

\* a non-zero code has ended the loops while entries wait on both lists
C14_Witness ==
    /\ pc = "splice"
    /\ r # SUCCESS
    /\ dispatcher_hup # <<>>
    /\ dispatcher_list # <<>>

\* C15 (poll timeout rule): the timeout a dispatch call hands to the poll is
\* 0 exactly when the ready list is non-empty at the start of the call, and
\* -1 (infinite) exactly when it is empty.
C15_PollTimeoutRule ==
    pc = "poll" =>
        /\ timeout = 0 <=> ~c_list_is_empty(dispatcher_list)
        /\ timeout = -1 <=> c_list_is_empty(dispatcher_list)

\* the second manager_run on a manager polls without blocking, after the
\* first call of manager_dispatch on it had to block
C15_Witness == pc = "poll" /\ timeout = 0 /\ runs = 2

\* C16 (splice-back order), as the claim states it: when manager_dispatch
\* returns, the processed entries are at the head of the ready list, in the
\* order they were dispatched, ahead of the entries that were still on it.
C16_SplicedToHead ==
    (pc = "run_check" /\ cause # "poll") => dispatcher_list = moved \o kept

\* C16, amended: when manager_dispatch returns, the processed entries are
\* at the tail of the ready list, in the order they were dispatched, behind
\* the entries that were still on it, which keep their places.
C16_SplicedToTail ==
    (pc = "run_check" /\ cause # "poll") =>
        /\ dispatcher_list = kept \o moved
        /\ processed = <<>>
        /\ Members(moved) \subseteq seen
        /\ Members(kept) \cap Members(moved) = {}

\* manager_dispatch returned with processed entries and with entries that
\* were still waiting on the ready list
C16_Witness == pc = "run_check" /\ kept # <<>> /\ moved # <<>>

\* C17 (hangup is a no-op unless it ends the loop): when the first inner
\* loop dequeues a connection other than the controller, or the controller
\* while it is running, the control code stays 0 and the step changes
\* nothing but the hangup list, which loses its first entry, and the link of
\* that connection.
C17_HangupNoOp ==
    [][ (/\ pc = "hup_loop"
         /\ r = SUCCESS
         /\ dispatcher_hup # <<>>
         /\ (Head(dispatcher_hup) # "ctl" \/ running)) =>
            \/ /\ pc' = "hup_loop"
               /\ r' = SUCCESS
               /\ dispatcher_hup' = Tail(dispatcher_hup)
               /\ hup_linked' =
                     [hup_linked EXCEPT ![Head(dispatcher_hup)] = FALSE]
               /\ UNCHANGED << dispatcher_list, processed, file, running,
                               registered, newVars, resVars, sigVars, ret >>
            \* a signal is sent to the process meanwhile
            \/ UNCHANGED << pc, r, listVars, file, running >>
      ]_vars

\* the external connection was dequeued with code 0 while further entries
\* wait on both lists
C17_Witness ==
    /\ pc = "hup_loop"
    /\ r = SUCCESS
    /\ "peer" \in hupDone
    /\ ~running
    /\ dispatcher_hup # <<>>
    /\ dispatcher_list # <<>>

\* C18 (user-entry reference transfer): the one reference manager_new takes
\* is counted exactly once while the controller connection is initialised,
\* that is, it is neither duplicated nor released by a successful
\* manager_new; it is gone after a failed manager_new; and the count never
\* drops below zero.
C18_ReferenceTransfer ==
    /\ "ctl" \in registered => userRefs = 1
    /\ pc = "new_failed" => userRefs = 0
    /\ userRefs >= 0

\* C19 (implicit): a file is on the processed list and off the ready list
\* when its callback is invoked, no file is ever on both lists, neither list
\* holds a file twice, and a file is dispatched a second time within one
\* dispatch call only after a callback linked it to the ready list again.
C19_MovedBeforeCall ==
    /\ pc = "call" =>
          /\ file \in Members(processed)
          /\ file \notin Members(dispatcher_list)
          /\ processed[Len(processed)] = file
    /\ Members(dispatcher_list) \cap Members(processed) = {}
    /\ NoDuplicates(dispatcher_list)
    /\ NoDuplicates(processed)
    /\ pc \in DispatchPcs \ {"dispatch", "poll"} =>
          \A f \in seen \cap Members(dispatcher_list) : <<"ready", f>> \in fresh

\* two callbacks have run in one dispatch call, each once, and a third
\* file is about to be dispatched
C19_Witness ==
    /\ pc = "call"
    /\ Len(processed) = 3
    /\ ~freshHandled
    /\ dispatcher_list = <<>>

\* C20 (implicit): manager_dispatch does not enter a blocking poll, one with
\* the infinite timeout, while an entry waits on the hangup list.
C20_NoBlockingPollWithHangups ==
    (pc = "poll" /\ timeout = -1) => c_list_is_empty(dispatcher_hup)

=============================================================================
